---- MODULE Spec2Model ----
(***************************************************************************)
(* VulkanRenderer (VulkanRenderer.cpp, main.cpp): main runs init(), whose   *)
(* pickPhysicalDevice() scores every enumerated physical device with       *)
(* getDeviceSuitablility() and keeps the highest rated one, and whose      *)
(* createSwapChain() derives the swap chain parameters from the support    *)
(* details of that device; update() then draws frames with drawFrame()     *)
(* until the window closes, and the destructor runs cleanup().             *)
(* The platform (the Vulkan driver and the window surface) is the variable *)
(* devices: what each query of the graphics API answers for each device.   *)
(* A uint32_t is the integer with the same 32 bits (UINT32_MAX is -1).     *)
(***************************************************************************)
EXTENDS Integers, Sequences, FiniteSets, TLC

\* ------------------------------------------------------------------------
\* Bounds of the model
\* ------------------------------------------------------------------------
MaxDevices == 2
MaxFamilies == 2
MaxDim == 1
MaxFormats == 2
MaxModes == 2
MaxExtraImages == 1
MaxFrames == 2

\* ------------------------------------------------------------------------
\* Program constants
\* ------------------------------------------------------------------------
DISCRETE_BONUS == 1000
MaxInt32 == 2147483647
MinInt32 == -MaxInt32 - 1
VK_NULL_HANDLE == 0
UINT32_MAX == -1
MAX_FRAMES_IN_FLIGHT == 2

deviceExtensions == {"VK_KHR_swapchain"}

ERR_NO_GPUS == "ERROR: Failed to find GPUs with Vulkan Support!"
ERR_NO_SUITABLE_GPU == "ERROR: Failed to find a suitable GPU"
ERR_EXTENSIONS == "ERROR: Missing Required Vulkan Extensions"
ERR_LAYERS == "ERROR: Missing Required Validation Layers!"
ERR_INSTANCE == "ERROR: Failed to create instance!"
ERR_DEBUG_MESSENGER == "ERROR: Failed to setup debug messenger!"
ERR_SURFACE == "ERROR: Failed to create a window surface!"
NO_ERROR == "none"
ERR_DEVICE == "ERROR: Failed to create logical device!"
ERR_SWAPCHAIN == "ERROR: Failed to create swap chain!"
ERR_IMAGE_VIEW == "ERROR: Failed to create image views"
ERR_RENDER_PASS == "ERROR: Failed to create render pass!"
ERR_FILE == "ERROR: Failed to open file named: "
WORKING_DIRECTORY == "../../../"
\* the files createGraphicsPipeline reads, in the order it reads them
ShaderFiles == <<WORKING_DIRECTORY \o "shaders/vert.spv",
                 WORKING_DIRECTORY \o "shaders/frag.spv">>
ERR_SHADER_MODULE == "ERROR: Failed to create shader module!"
ERR_PIPELINE_LAYOUT == "ERROR: Failed to create pipeline layout!"
ERR_PIPELINE == "ERROR: Failed to create Graphics Pipeline!"
ERR_FRAMEBUFFER == "ERROR: Failed to create framebuffer: "
ERR_COMMAND_POOL == "ERROR: Failed to create command pool!"
ERR_COMMAND_BUFFER == "ERROR: Failed to create command buffers!"
ERR_SYNC == "ERROR: Failed to create semaphores!"
ERR_BEGIN == "ERROR: Failed to begin recording command buffer!"
ERR_RECORD == "ERROR: Failed to record command buffer!"
ERR_SUBMIT == "ERROR: Failed to submit draw command buffer!"
\* what() of the std::bad_optional_access that value() throws on an empty optional
ERR_BAD_OPTIONAL == "bad optional access"

\* the objects of the logical device that the renderer holds a handle of
ObjectNames == {"mDevice", "mSwapChain", "mRenderPass", "mPipelineLayout",
                "mGraphicsPipeline", "mCommandPool", "mCommandBuffer",
                "mImageAvailableSemaphore", "mRenderFinishedSemaphore",
                "mInFlightFence"}

\* cleanup(), in the order of its statements
CleanupSequenceSwapChainFirst ==
  <<"mImageAvailableSemaphore", "mRenderFinishedSemaphore", "mInFlightFence",
    "mCommandPool", "mSwapChainFramebuffers", "mGraphicsPipeline",
    "mPipelineLayout", "mRenderPass", "mSwapChain", "mSwapChainImageViews",
    "mDevice", "mpWindow", "mDebugMessenger", "mSurface", "mInstance", "glfw">>

CleanupSequence ==
  <<"mImageAvailableSemaphore", "mRenderFinishedSemaphore", "mInFlightFence",
    "mCommandPool", "mSwapChainFramebuffers", "mGraphicsPipeline",
    "mPipelineLayout", "mRenderPass", "mSwapChainImageViews", "mSwapChain",
    "mDevice", "mpWindow", "mDebugMessenger", "mSurface", "mInstance", "glfw">>

\* ------------------------------------------------------------------------
\* What the platform can report
\* ------------------------------------------------------------------------
DeviceTypes == {"DISCRETE_GPU", "INTEGRATED_GPU"}
ExtensionNames == {"VK_KHR_swapchain", "VK_KHR_maintenance1"}
PresentModes == {"FIFO", "MAILBOX"}
PreferredFormat == [format |-> "B8G8R8A8_SRGB", colorSpace |-> "SRGB_NONLINEAR"]
SurfaceFormats == {PreferredFormat,
                   [format |-> "R8G8B8A8_UNORM", colorSpace |-> "SRGB_NONLINEAR"]}
Extent(w, h) == [width |-> w, height |-> h]
WindowSize == Extent(800, 600)
FixedCapabilities ==
  [minImageCount |-> 2, maxImageCount |-> 0, currentExtent |-> WindowSize,
   minImageExtent |-> WindowSize, maxImageExtent |-> WindowSize]
FreeCapabilities ==
  [minImageCount |-> 2, maxImageCount |-> 2,
   currentExtent |-> Extent(UINT32_MAX, UINT32_MAX),
   minImageExtent |-> Extent(1, 1), maxImageExtent |-> Extent(4096, 4096)]
Capabilities == {FixedCapabilities, FreeCapabilities}

SeqUpTo(S, n) == UNION {[1..k -> S] : k \in 0..n}
Listed(list) == {list[k] : k \in 1..Len(list)}
Distinct(s) == \A a, b \in 1..Len(s) : a # b => s[a] # s[b]
DistinctSeqs(S) == {s \in SeqUpTo(S, Cardinality(S)) : Distinct(s)}

\* one queue family: its graphics flag and whether it can present to mSurface
QueueFamily == [graphics : BOOLEAN, present : BOOLEAN]

\* what a surface can report to createSwapChain: a third surface format that
\* has the preferred pixel format in another colour space, a third present
\* mode, the extents and the image counts
OtherColorSpaceFormat ==
  [format |-> "B8G8R8A8_SRGB", colorSpace |-> "EXTENDED_SRGB_LINEAR"]
ConfigFormats == SurfaceFormats \cup {OtherColorSpaceFormat}
ConfigPresentModes == PresentModes \cup {"IMMEDIATE"}
FramebufferDims == {0, 1080, 1920, 10000}
ExtentCapabilities ==
  [minImageCount : {2}, maxImageCount : {0},
   currentExtent : [width : {UINT32_MAX, 800}, height : {UINT32_MAX, 600}],
   minImageExtent : [width : {1, 1920}, height : {1, 1080}],
   maxImageExtent : [width : {1920, 4096}, height : {1080, 4096}]]
CountValues == {0, 1, 2, 3, MaxInt32, MinInt32, UINT32_MAX - 1, UINT32_MAX}
CountCapabilities ==
  [minImageCount : CountValues \ {0}, maxImageCount : CountValues,
   currentExtent : {WindowSize}, minImageExtent : {WindowSize},
   maxImageExtent : {WindowSize}]

Device == [deviceType : DeviceTypes,
           maxImageDimension2D : 0..MaxDim,
           geometryShader : BOOLEAN,
           queueFamilies : SeqUpTo(QueueFamily, MaxFamilies),
           extensions : SUBSET ExtensionNames,
           capabilities : Capabilities,
           formats : DistinctSeqs(SurfaceFormats),
           presentModes : DistinctSeqs(PresentModes)]

\* Devices of a multi-GPU system: they differ in adapter class, image limit,
\* geometry-shader feature, surface formats and present modes.
RankDevice == [deviceType : DeviceTypes,
               maxImageDimension2D : 0..MaxDim,
               geometryShader : BOOLEAN,
               queueFamilies : {<<[graphics |-> TRUE, present |-> TRUE]>>},
               extensions : {ExtensionNames},
               capabilities : {FixedCapabilities},
               formats : {<<>>, <<PreferredFormat>>},
               presentModes : {<<>>, <<"FIFO">>}]

\* an image limit so large that the int score of line 382 plus the bonus of
\* line 378 no longer fits an int
HugeDim == MaxInt32 - 647

\* Two devices of a machine that may be twins: alike but for the adapter class
TwinDevice == [deviceType : DeviceTypes,
               maxImageDimension2D : (0..MaxDim) \cup {HugeDim},
               geometryShader : BOOLEAN,
               queueFamilies : {<<[graphics |-> TRUE, present |-> TRUE]>>},
               extensions : {ExtensionNames},
               capabilities : {FixedCapabilities},
               formats : {<<>>, <<PreferredFormat>>},
               presentModes : {<<"FIFO">>}]

VARIABLES
  devices,           \* the platform: answers of the driver per physical device
  pc,                \* position of the main thread
  deviceIdx,         \* pickPhysicalDevice: devices already scored by the loop
  suitability,       \* getDeviceSuitablility: local suitability
  scan,              \* findQueueFamilies: parameter and locals of the last call
  probe,             \* getSwapChainSupport: parameter and result of the last call
  availableDevices,  \* pickPhysicalDevice: the multimap score -> device
  mPhysicalDevice,   \* VulkanRenderer::mPhysicalDevice
  err,               \* message of the exception in flight or caught
  exitCode,          \* exit code of main
  framebufferSize,   \* the window: what glfwGetFramebufferSize answers
  swapChainSupport,  \* createSwapChain: local swapChainSupport
  surfaceFormat,     \* createSwapChain: local surfaceFormat
  presentMode,       \* createSwapChain: local presentMode
  mSwapChainExtent,  \* VulkanRenderer::mSwapChainExtent
  imageCount,        \* createSwapChain: local imageCount
  vkResult,          \* the VkResult of the latest call of the graphics API
  handles,           \* the state of the object behind each handle member
  createInfo,        \* createSwapChain: local createInfo
  mSwapChainImages,  \* VulkanRenderer::mSwapChainImages
  mSwapChainImageViews,    \* VulkanRenderer::mSwapChainImageViews
  mSwapChainFramebuffers,  \* VulkanRenderer::mSwapChainFramebuffers
  loopIdx,           \* createImageViews, createFramebuffers: loop variable i
  swapChainStatus,   \* the surface: how mSwapChain still matches it
  fenceSignaled,     \* the device: state of mInFlightFence
  imageAvailable,    \* the device: state of mImageAvailableSemaphore
  inFlight,          \* the device: submissions it has not finished
  imageIndex,        \* drawFrame: local imageIndex
  frames,            \* update: calls of drawFrame so far
  cleanupIdx,        \* cleanup: the statement it is at
  queueCreateInfoList,  \* createLogicalDevice: local queueCreateInfoList
  renderFinished,    \* the device: state of mRenderFinishedSemaphore
  presentQueue,      \* the queue: presentation requests it has not executed
  timeline,          \* per call of drawFrame, what has happened to its image
  cleanups           \* calls of cleanup so far

pickVars == <<devices, pc, deviceIdx, suitability, scan, probe, availableDevices,
              mPhysicalDevice, err, exitCode>>
configVars == <<framebufferSize, swapChainSupport, surfaceFormat, presentMode,
                mSwapChainExtent, imageCount>>
selectionVars == <<devices, deviceIdx, suitability, scan, probe, availableDevices,
                   mPhysicalDevice>>
swapVars == <<createInfo, mSwapChainImages, mSwapChainImageViews,
              mSwapChainFramebuffers, loopIdx, swapChainStatus>>
frameVars == <<fenceSignaled, imageAvailable, inFlight, imageIndex, frames>>
engineVars == <<queueCreateInfoList, renderFinished, presentQueue, timeline,
                cleanups>>
renderVars == <<vkResult, handles, swapVars, frameVars, cleanupIdx, engineVars>>
afterPickVars == <<configVars, renderVars>>

vars == <<pickVars, afterPickVars>>

\* ------------------------------------------------------------------------
\* int arithmetic of getDeviceSuitablility (32-bit, wrapping)
\* ------------------------------------------------------------------------
AddInt32(a, b) ==
  IF a > 0 /\ b > MaxInt32 - a THEN (a + MinInt32) + (b + MinInt32)
  ELSE IF a < 0 /\ b < MinInt32 - a THEN (a - MinInt32) + (b - MinInt32)
  ELSE a + b

\* ------------------------------------------------------------------------
\* QueueFamilyIndices
\* ------------------------------------------------------------------------
\* std::optional<uint32_t> is a set with at most one element
EmptyIndices == [graphicsFamily |-> {}, presentFamily |-> {}]

isCompleteOr(indices) ==
  indices.graphicsFamily # {} \/ indices.presentFamily # {}

isComplete(indices) ==
  indices.graphicsFamily # {} /\ indices.presentFamily # {}

\* ------------------------------------------------------------------------
\* findQueueFamilies
\* ------------------------------------------------------------------------
EmptyScan == [device |-> VK_NULL_HANDLE, indices |-> EmptyIndices,
              queueFamilyIndex |-> 0, presentSupport |-> FALSE,
              queried |-> {}, scanned |-> 0]

\* mutant: the graphics family is recorded only while none is recorded yet
FirstGraphicsLoopBody(st, queueFamily) ==
  LET idx == st.queueFamilyIndex
      graphics == queueFamily.graphics
      gf == IF graphics /\ st.indices.graphicsFamily = {} THEN {idx}
            ELSE st.indices.graphicsFamily
      ps == IF graphics THEN queueFamily.present ELSE st.presentSupport
      pf == IF ps THEN {idx} ELSE st.indices.presentFamily
  IN [st EXCEPT !.indices = [graphicsFamily |-> gf, presentFamily |-> pf],
                !.presentSupport = ps,
                !.queried = IF graphics THEN @ \cup {idx} ELSE @,
                !.scanned = @ + 1]

\* one iteration of the for loop, up to the isComplete test
LoopBody(st, queueFamily) ==
  LET idx == st.queueFamilyIndex
      graphics == queueFamily.graphics
      gf == IF graphics THEN {idx} ELSE st.indices.graphicsFamily
      \* vkGetPhysicalDeviceSurfaceSupportKHR is called for graphics families
      \* only; presentSupport keeps its value otherwise
      ps == IF graphics THEN queueFamily.present ELSE st.presentSupport
      pf == IF ps THEN {idx} ELSE st.indices.presentFamily
  IN [st EXCEPT !.indices = [graphicsFamily |-> gf, presentFamily |-> pf],
                !.presentSupport = ps,
                !.queried = IF graphics THEN @ \cup {idx} ELSE @,
                !.scanned = @ + 1]

\* mutant: the loop has no early break
RECURSIVE ScanQueueFamiliesNoBreak(_, _, _)
ScanQueueFamiliesNoBreak(queueFamilies, k, st) ==
  IF k > Len(queueFamilies) THEN st
  ELSE ScanQueueFamiliesNoBreak(
         queueFamilies, k + 1,
         [LoopBody(st, queueFamilies[k]) EXCEPT !.queueFamilyIndex = @ + 1])

\* the for loop of lines 669-689 from family k on
RECURSIVE ScanQueueFamilies(_, _, _)
ScanQueueFamilies(queueFamilies, k, st) ==
  IF k > Len(queueFamilies) THEN st
  ELSE LET next == LoopBody(st, queueFamilies[k])
       IN IF isComplete(next.indices) THEN next
          ELSE ScanQueueFamilies(queueFamilies, k + 1,
                                 [next EXCEPT !.queueFamilyIndex = @ + 1])

\* the locals of findQueueFamilies(device) when it returns; .indices is returned
findQueueFamilies(handle) ==
  ScanQueueFamilies(devices[handle].queueFamilies, 1,
                    [EmptyScan EXCEPT !.device = handle])

\* ------------------------------------------------------------------------
\* getSwapChainSupport, checkDeviceExtensionSupport
\* ------------------------------------------------------------------------
EmptyCapabilities ==
  [minImageCount |-> 0, maxImageCount |-> 0, currentExtent |-> Extent(0, 0),
   minImageExtent |-> Extent(0, 0), maxImageExtent |-> Extent(0, 0)]
EmptyDetails == [capabilities |-> EmptyCapabilities,
                 formats |-> <<>>, presentModes |-> <<>>]
EmptyProbe == [device |-> VK_NULL_HANDLE, details |-> EmptyDetails]

\* mutant: the present modes of the surface are queried too
getSwapChainSupportWithPresentModes(handle) ==
  [capabilities |-> devices[handle].capabilities,
   formats |-> IF Len(devices[handle].formats) # 0
               THEN devices[handle].formats ELSE <<>>,
   presentModes |-> devices[handle].presentModes]

getSwapChainSupport(handle) ==
  [capabilities |-> devices[handle].capabilities,
   formats |-> IF Len(devices[handle].formats) # 0
               THEN devices[handle].formats ELSE <<>>,
   presentModes |-> <<>>]

checkDeviceExtensionSupport(handle) ==
  (deviceExtensions \ devices[handle].extensions) = {}

\* ------------------------------------------------------------------------
\* std::multimap<int, VkPhysicalDevice>
\* ------------------------------------------------------------------------
InsertAt(m, p, e) ==
  [k \in 1..(Len(m) + 1) |-> IF k < p THEN m[k] ELSE IF k = p THEN e ELSE m[k - 1]]

\* mutant: an equal key is inserted before the elements already there
MultimapInsertLowerBound(m, key, value) ==
  InsertAt(m, Cardinality({k \in 1..Len(m) : m[k].first < key}) + 1,
           [first |-> key, second |-> value])

\* insert keeps the keys ascending; an equal key goes after the ones present
MultimapInsert(m, key, value) ==
  InsertAt(m, Cardinality({k \in 1..Len(m) : m[k].first <= key}) + 1,
           [first |-> key, second |-> value])

\* mutant: the lowest rated entry
begin(m) == m[1]

\* the highest rated entry
rbegin(m) == m[Len(m)]

\* mutant: a score of zero counts as suitable
IsSuitableOrZero(score) == score >= 0

IsSuitable(score) == score > 0

\* ------------------------------------------------------------------------
\* getDeviceSuitablility, lines 365-382
\* ------------------------------------------------------------------------
BaseSuitability(device) ==
  AddInt32(IF device.deviceType = "DISCRETE_GPU" THEN AddInt32(0, DISCRETE_BONUS) ELSE 0,
           device.maxImageDimension2D)

\* ------------------------------------------------------------------------
\* uint32_t arithmetic on the 32-bit patterns
\* ------------------------------------------------------------------------
\* a < b of two uint32_t
ULess(a, b) == IF (a < 0) = (b < 0) THEN a < b ELSE a >= 0
\* a + 1 of a uint32_t, modulo 2^32
UInc(a) == IF a = MaxInt32 THEN MinInt32 ELSE a + 1
\* std::clamp(v, lo, hi) of uint32_t
\* std::clamp as the library of the build computes it, min(max(v, lo), hi):
\* with hi below lo, where the standard leaves the result undefined, it is hi
clamp(v, lo, hi) ==
  LET max == IF ULess(v, lo) THEN lo ELSE v
  IN IF ULess(hi, max) THEN hi ELSE max
\* (uint32_t) of an int: the same 32 bits
CastUint32(i) == i

\* ------------------------------------------------------------------------
\* Swap chain parameters
\* ------------------------------------------------------------------------
\* a VkSurfaceFormatKHR that no surface reports
NoFormat == [format |-> "UNDEFINED", colorSpace |-> "UNDEFINED"]

IsPreferredFormat(availableFormat) ==
  /\ availableFormat.format = "B8G8R8A8_SRGB"
  /\ availableFormat.colorSpace = "SRGB_NONLINEAR"

\* the range-for of chooseSwapSurfaceFormat and chooseSwapPresentMode returns
\* at the first of the positions whose element passes the test
First(S) == CHOOSE k \in S : \A j \in S : k <= j

chooseSwapSurfaceFormatByPixelFormat(availableFormats) ==
  LET hits == {k \in 1..Len(availableFormats) :
                 availableFormats[k].format = "B8G8R8A8_SRGB"}
  IN  IF hits # {} THEN availableFormats[First(hits)] ELSE availableFormats[1]

\* defined on a non-empty list; availableFormats[0] of an empty vector is
\* undefined behaviour, see ChooseSwapSurfaceFormat
chooseSwapSurfaceFormat(availableFormats) ==
  LET hits == {k \in 1..Len(availableFormats) :
                 IsPreferredFormat(availableFormats[k])}
  IN  IF hits # {} THEN availableFormats[First(hits)] ELSE availableFormats[1]

chooseSwapPresentModeImmediate(availablePresentModes) ==
  LET hits == {k \in 1..Len(availablePresentModes) :
                 availablePresentModes[k] = "IMMEDIATE"}
  IN  IF hits # {} THEN availablePresentModes[First(hits)] ELSE "FIFO"

chooseSwapPresentMode(availablePresentModes) ==
  LET hits == {k \in 1..Len(availablePresentModes) :
                 availablePresentModes[k] = "MAILBOX"}
  IN  IF hits # {} THEN availablePresentModes[First(hits)] ELSE "FIFO"

chooseSwapExtentWidthBounds(capabilities, framebuffer) ==
  IF capabilities.currentExtent.width # UINT32_MAX
    THEN capabilities.currentExtent
    ELSE Extent(clamp(CastUint32(framebuffer.width),
                      capabilities.minImageExtent.width,
                      capabilities.maxImageExtent.width),
                clamp(CastUint32(framebuffer.height),
                      capabilities.minImageExtent.width,
                      capabilities.maxImageExtent.width))

\* framebuffer is what glfwGetFramebufferSize answers
chooseSwapExtent(capabilities, framebuffer) ==
  IF capabilities.currentExtent.width # UINT32_MAX
    THEN capabilities.currentExtent
    ELSE Extent(clamp(CastUint32(framebuffer.width),
                      capabilities.minImageExtent.width,
                      capabilities.maxImageExtent.width),
                clamp(CastUint32(framebuffer.height),
                      capabilities.minImageExtent.height,
                      capabilities.maxImageExtent.height))

EmptyCreateInfo ==
  [minImageCount |-> 0, imageFormat |-> "UNDEFINED",
   imageColorSpace |-> "SRGB_NONLINEAR",
   imageExtent |-> Extent(0, 0), imageSharingMode |-> "EXCLUSIVE",
   presentMode |-> "IMMEDIATE"]

\* createSwapChain, the image count it requests
RequestedImageCount(capabilities) ==
  LET count == UInc(capabilities.minImageCount)
  IN  IF /\ ULess(0, capabilities.maxImageCount)
         /\ ULess(capabilities.maxImageCount, count)
        THEN capabilities.maxImageCount
        ELSE count

\* ------------------------------------------------------------------------
\* The program
\* ------------------------------------------------------------------------
\* the members and locals before main calls init()
Constructed ==
  /\ deviceIdx = 0
  /\ suitability = 0
  /\ scan = EmptyScan
  /\ probe = EmptyProbe
  /\ availableDevices = <<>>
  /\ mPhysicalDevice = VK_NULL_HANDLE
  /\ err = NO_ERROR
  /\ exitCode = "running"
  /\ surfaceFormat = NoFormat
  /\ presentMode = "none"
  /\ mSwapChainExtent = Extent(0, 0)
  /\ imageCount = 0
  /\ vkResult = "none"
  /\ handles = [object \in ObjectNames |-> "null"]
  /\ createInfo = EmptyCreateInfo
  /\ mSwapChainImages = <<>>
  /\ mSwapChainImageViews = <<>>
  /\ mSwapChainFramebuffers = <<>>
  /\ loopIdx = 0
  /\ swapChainStatus = "none"
  /\ fenceSignaled = FALSE
  /\ imageAvailable = FALSE
  /\ inFlight = 0
  /\ imageIndex = 0
  /\ frames = 0
  /\ cleanupIdx = 0
  /\ queueCreateInfoList = <<>>
  /\ renderFinished = FALSE
  /\ presentQueue = <<>>
  /\ timeline = <<>>
  /\ cleanups = 0

Init ==
  /\ \/ devices \in SeqUpTo(Device, 1)
     \/ devices \in SeqUpTo(RankDevice, MaxDevices)
  /\ pc = "init"
  /\ framebufferSize = WindowSize
  /\ swapChainSupport = EmptyDetails
  /\ Constructed

Throw(message) ==
  /\ err' = message
  /\ pc' = "catch"

\* what lines 15-18 of init() can throw, in the order of the tests:
\* createInstance (199, 205, 229), setupDebugMessenger (1156), createSurface
InstanceErrors == <<ERR_EXTENSIONS, ERR_LAYERS, ERR_INSTANCE, ERR_DEBUG_MESSENGER,
                    ERR_SURFACE>>

\* init(), lines 15-18: window, instance, debug messenger and surface;
\* failedAt is the test that fails, 0 when none does
CreateSurface ==
  /\ pc = "init"
  /\ \E failedAt \in 0..Len(InstanceErrors) :
       IF failedAt = 0 THEN pc' = "pickPhysicalDevice" /\ UNCHANGED err
       ELSE Throw(InstanceErrors[failedAt])
  /\ UNCHANGED <<devices, deviceIdx, suitability, scan, probe, availableDevices,
                 mPhysicalDevice, exitCode>>
  /\ UNCHANGED afterPickVars

\* pickPhysicalDevice(), lines 252-269
EnumerateDevices ==
  /\ pc = "pickPhysicalDevice"
  /\ IF Len(devices) < 1
     THEN Throw(ERR_NO_GPUS)
     ELSE pc' = "loop" /\ UNCHANGED err
  /\ deviceIdx' = 0
  /\ availableDevices' = <<>>
  /\ UNCHANGED <<devices, suitability, scan, probe, mPhysicalDevice, exitCode>>
  /\ UNCHANGED afterPickVars

\* getDeviceSuitablility returns score to the loop, which inserts it (line 275)
ReturnSuitability(score) ==
  /\ availableDevices' = MultimapInsert(availableDevices, score, deviceIdx + 1)
  /\ deviceIdx' = deviceIdx + 1
  /\ pc' = "loop"

\* the loop of lines 272-276 calls getDeviceSuitablility(device), lines 365-388
ScoreProperties ==
  /\ pc = "loop"
  /\ deviceIdx < Len(devices)
  /\ LET device == devices[deviceIdx + 1]
     IN /\ suitability' = BaseSuitability(device)
        /\ IF ~device.geometryShader
           THEN ReturnSuitability(0)
           ELSE pc' = "queueFamilies" /\ UNCHANGED <<availableDevices, deviceIdx>>
  /\ UNCHANGED <<devices, scan, probe, mPhysicalDevice, err, exitCode>>
  /\ UNCHANGED afterPickVars

\* getDeviceSuitablility, lines 390-395
ScoreQueueFamilies ==
  /\ pc = "queueFamilies"
  /\ LET frame == findQueueFamilies(deviceIdx + 1)
     IN /\ scan' = frame
        /\ IF ~isComplete(frame.indices) \/ ~checkDeviceExtensionSupport(deviceIdx + 1)
           THEN ReturnSuitability(0)
           ELSE pc' = "swapChainSupport" /\ UNCHANGED <<availableDevices, deviceIdx>>
  /\ UNCHANGED <<devices, suitability, probe, mPhysicalDevice, err, exitCode>>
  /\ UNCHANGED afterPickVars

\* getDeviceSuitablility, lines 397-408
ScoreSwapChainSupport ==
  /\ pc = "swapChainSupport"
  /\ LET details == getSwapChainSupport(deviceIdx + 1)
         total == AddInt32(suitability,
                           Len(details.formats)
                             + Len(details.presentModes))
     IN /\ probe' = [device |-> deviceIdx + 1, details |-> details]
        /\ IF details.formats = <<>> /\ details.presentModes = <<>>
           THEN ReturnSuitability(0) /\ UNCHANGED suitability
           ELSE ReturnSuitability(total) /\ suitability' = total
  /\ UNCHANGED <<devices, scan, mPhysicalDevice, err, exitCode>>
  /\ UNCHANGED afterPickVars

\* pickPhysicalDevice(), lines 278-288
RankDevices ==
  /\ pc = "loop"
  /\ deviceIdx = Len(devices)
  /\ IF IsSuitable(rbegin(availableDevices).first)
     THEN /\ mPhysicalDevice' = rbegin(availableDevices).second
          /\ pc' = "createLogicalDevice"
          /\ UNCHANGED err
     ELSE /\ Throw(ERR_NO_SUITABLE_GPU)
          /\ UNCHANGED mPhysicalDevice
  /\ UNCHANGED <<devices, deviceIdx, suitability, scan, probe, availableDevices,
                 exitCode>>
  /\ UNCHANGED afterPickVars

\* main(), lines 23-27
Catch ==
  /\ pc = "catch"
  /\ pc' = "exited"
  /\ exitCode' = "EXIT_FAILURE"
  /\ UNCHANGED <<devices, deviceIdx, suitability, scan, probe, availableDevices,
                 mPhysicalDevice, err>>
  /\ UNCHANGED afterPickVars

Next ==
  \/ CreateSurface
  \/ EnumerateDevices
  \/ ScoreProperties
  \/ ScoreQueueFamilies
  \/ ScoreSwapChainSupport
  \/ RankDevices
  \/ Catch

Spec == Init /\ [][Next]_vars

\* main on a machine with two physical devices
InitTwins ==
  /\ devices \in [1..2 -> TwinDevice]
  /\ pc = "init"
  /\ framebufferSize = WindowSize
  /\ swapChainSupport = EmptyDetails
  /\ Constructed

SpecTwins == InitTwins /\ [][Next]_vars

\* ------------------------------------------------------------------------
\* createSwapChain: the parameters of the swap chain
\* ------------------------------------------------------------------------
\* line 449. On an empty list the function reads availableFormats[0] of an
\* empty vector: the process crashes or goes on with whatever the read gave.
ChooseSwapSurfaceFormat ==
  /\ pc = "chooseSwapSurfaceFormat"
  /\ IF swapChainSupport.formats # <<>>
       THEN /\ surfaceFormat' = chooseSwapSurfaceFormat(swapChainSupport.formats)
            /\ pc' = "chooseSwapPresentMode"
            /\ UNCHANGED exitCode
       ELSE \E crashes \in BOOLEAN, read \in ConfigFormats \cup {NoFormat} :
              IF crashes
                THEN /\ pc' = "exited"
                     /\ exitCode' = "crashed"
                     /\ UNCHANGED surfaceFormat
                ELSE /\ surfaceFormat' = read
                     /\ pc' = "chooseSwapPresentMode"
                     /\ UNCHANGED exitCode
  /\ UNCHANGED <<devices, deviceIdx, suitability, scan, probe, availableDevices,
                 mPhysicalDevice, err>>
  /\ UNCHANGED <<framebufferSize, swapChainSupport, presentMode,
                 mSwapChainExtent, imageCount>>
  /\ UNCHANGED renderVars

\* line 454
ChooseSwapPresentMode ==
  /\ pc = "chooseSwapPresentMode"
  /\ presentMode' = chooseSwapPresentMode(swapChainSupport.presentModes)
  /\ pc' = "chooseSwapExtent"
  /\ UNCHANGED <<devices, deviceIdx, suitability, scan, probe, availableDevices,
                 mPhysicalDevice, err, exitCode>>
  /\ UNCHANGED <<framebufferSize, swapChainSupport, surfaceFormat,
                 mSwapChainExtent, imageCount>>
  /\ UNCHANGED renderVars

\* line 456
ChooseSwapExtent ==
  /\ pc = "chooseSwapExtent"
  /\ mSwapChainExtent' =
       chooseSwapExtent(swapChainSupport.capabilities, framebufferSize)
  /\ pc' = "imageCount"
  /\ UNCHANGED <<devices, deviceIdx, suitability, scan, probe, availableDevices,
                 mPhysicalDevice, err, exitCode>>
  /\ UNCHANGED <<framebufferSize, swapChainSupport, surfaceFormat, presentMode,
                 imageCount>>
  /\ UNCHANGED renderVars

\* lines 459-465
ChooseImageCount ==
  /\ pc = "imageCount"
  /\ imageCount' = RequestedImageCount(swapChainSupport.capabilities)
  /\ pc' = "vkCreateSwapchainKHR"
  /\ UNCHANGED <<devices, deviceIdx, suitability, scan, probe, availableDevices,
                 mPhysicalDevice, err, exitCode>>
  /\ UNCHANGED <<framebufferSize, swapChainSupport, surfaceFormat, presentMode,
                 mSwapChainExtent>>
  /\ UNCHANGED renderVars

\* createSwapChain after line 447, for every support details a surface can
\* report: the lists, the extents and the image counts vary in turn
InitConfig ==
  /\ devices = <<>>
  /\ pc = "chooseSwapSurfaceFormat"
  /\ Constructed
  /\ \/ /\ swapChainSupport \in
              [capabilities : {FixedCapabilities},
               formats : SeqUpTo(ConfigFormats, MaxFormats),
               presentModes : SeqUpTo(ConfigPresentModes, MaxModes)]
        /\ framebufferSize = WindowSize
     \/ /\ swapChainSupport \in
              [capabilities : ExtentCapabilities,
               formats : {<<PreferredFormat>>}, presentModes : {<<>>}]
        /\ framebufferSize \in [width : FramebufferDims, height : FramebufferDims]
     \/ /\ swapChainSupport \in
              [capabilities : CountCapabilities,
               formats : {<<PreferredFormat>>}, presentModes : {<<>>}]
        /\ \/ swapChainSupport.capabilities.maxImageCount = 0
           \/ ~ULess(swapChainSupport.capabilities.maxImageCount,
                     swapChainSupport.capabilities.minImageCount)
        /\ framebufferSize = WindowSize

NextConfig ==
  \/ ChooseSwapSurfaceFormat
  \/ ChooseSwapPresentMode
  \/ ChooseSwapExtent
  \/ ChooseImageCount

SpecConfig == InitConfig /\ [][NextConfig]_vars

\* ------------------------------------------------------------------------
\* init() after pickPhysicalDevice, update(), drawFrame() and cleanup()
\* ------------------------------------------------------------------------
\* what a vkCreate* or vkAllocate* call answers
CreateResults == {"VK_SUCCESS", "VK_ERROR_OUT_OF_HOST_MEMORY"}

\* what vkAcquireNextImageKHR and vkQueuePresentKHR answer: a swap chain
\* that is out of date stays so, a suboptimal one does not become optimal
PresentationResults(status) ==
  CASE status = "optimal" ->
         {"VK_SUCCESS", "VK_SUBOPTIMAL_KHR", "VK_ERROR_OUT_OF_DATE_KHR"}
    [] status = "suboptimal" -> {"VK_SUBOPTIMAL_KHR", "VK_ERROR_OUT_OF_DATE_KHR"}
    [] OTHER -> {"VK_ERROR_OUT_OF_DATE_KHR"}

StatusAfter(status, result) ==
  CASE result = "VK_SUBOPTIMAL_KHR" -> "suboptimal"
    [] result = "VK_ERROR_OUT_OF_DATE_KHR" -> "outOfDate"
    [] OTHER -> status

\* the images the driver creates for a swap chain: at least the requested
\* count, at most maxImageCount when that is not 0
SwapchainImageCounts(requested, maxImageCount) ==
  {n \in requested..(requested + MaxExtraImages) :
     maxImageCount = 0 \/ n <= maxImageCount}

Fail(result, message) ==
  /\ vkResult' = result
  /\ Throw(message)

\* if (vkCreate...(..., &object) != VK_SUCCESS) throw ...
CreateObject(object, next, message) ==
  /\ \E result \in CreateResults :
       IF result = "VK_SUCCESS"
         THEN /\ vkResult' = result
              /\ handles' = [handles EXCEPT ![object] = "live"]
              /\ pc' = next
              /\ UNCHANGED err
         ELSE /\ Fail(result, message)
              /\ UNCHANGED handles
  /\ UNCHANGED <<selectionVars, exitCode, configVars, swapVars, frameVars,
                 cleanupIdx>>
  /\ UNCHANGED engineVars

\* std::optional::value(): the value, or std::bad_optional_access when empty
HasValue(optional) == optional # {}

\* the elements of a std::set<uint32_t> in the order of its iteration
Ascending(S) ==
  CHOOSE q \in [1..Cardinality(S) -> S] :
    \A i, j \in 1..Cardinality(S) : i < j => q[i] < q[j]

\* createLogicalDevice, lines 299-301: the initializer list of the set
uniqueQueueFamilies(indices) == indices.graphicsFamily \cup indices.presentFamily

\* createLogicalDevice, lines 294-356: one VkDeviceQueueCreateInfo per element
\* of uniqueQueueFamilies, then vkCreateDevice
CreateLogicalDevice ==
  /\ pc = "createLogicalDevice"
  /\ LET indices == findQueueFamilies(mPhysicalDevice).indices
     IN IF HasValue(indices.graphicsFamily) /\ HasValue(indices.presentFamily)
          THEN /\ queueCreateInfoList' = Ascending(uniqueQueueFamilies(indices))
               /\ \E result \in CreateResults :
                    IF result = "VK_SUCCESS"
                      THEN /\ vkResult' = result
                           /\ handles' = [handles EXCEPT !["mDevice"] = "live"]
                           /\ pc' = "createSwapChain"
                           /\ UNCHANGED err
                      ELSE /\ Fail(result, ERR_DEVICE)
                           /\ UNCHANGED handles
          ELSE /\ Throw(ERR_BAD_OPTIONAL)
               /\ UNCHANGED <<queueCreateInfoList, vkResult, handles>>
  /\ UNCHANGED <<selectionVars, exitCode, configVars, swapVars, frameVars,
                 cleanupIdx>>
  /\ UNCHANGED <<renderFinished, presentQueue, timeline, cleanups>>

\* createSwapChain, line 447
QuerySwapChainSupport ==
  /\ pc = "createSwapChain"
  /\ swapChainSupport' = getSwapChainSupport(mPhysicalDevice)
  /\ pc' = "chooseSwapSurfaceFormat"
  /\ UNCHANGED <<selectionVars, err, exitCode, renderVars>>
  /\ UNCHANGED <<framebufferSize, surfaceFormat, presentMode, mSwapChainExtent,
                 imageCount>>

\* createSwapChain, lines 467-504
CreateSwapchain ==
  /\ pc = "vkCreateSwapchainKHR"
  /\ LET indices == findQueueFamilies(mPhysicalDevice).indices
     IN IF HasValue(indices.graphicsFamily) /\ HasValue(indices.presentFamily)
          THEN /\ createInfo' =
                    [minImageCount |-> imageCount,
                     imageFormat |-> surfaceFormat.format,
                     imageColorSpace |-> surfaceFormat.colorSpace,
                     imageExtent |-> mSwapChainExtent,
                     imageSharingMode |->
                       IF indices.graphicsFamily # indices.presentFamily
                         THEN "CONCURRENT" ELSE "EXCLUSIVE",
                     presentMode |-> presentMode]
               /\ \E result \in CreateResults :
                    IF result = "VK_SUCCESS"
                      THEN /\ vkResult' = result
                           /\ handles' = [handles EXCEPT !["mSwapChain"] = "live"]
                           /\ swapChainStatus' = "optimal"
                           /\ pc' = "vkGetSwapchainImagesKHR"
                           /\ UNCHANGED err
                      ELSE /\ Fail(result, ERR_SWAPCHAIN)
                           /\ UNCHANGED <<handles, swapChainStatus>>
          \* line 479: value() of an empty optional
          ELSE /\ Throw(ERR_BAD_OPTIONAL)
               /\ UNCHANGED <<createInfo, vkResult, handles, swapChainStatus>>
  /\ UNCHANGED <<selectionVars, exitCode, configVars, frameVars, cleanupIdx>>
  /\ UNCHANGED <<mSwapChainImages, mSwapChainImageViews, mSwapChainFramebuffers,
                 loopIdx>>
  /\ UNCHANGED engineVars

\* createSwapChain, lines 507-509: two calls, the VkResult of neither is read.
\* The swap chain has n images. The count query (507) sets imageCount to n,
\* or fails and leaves it as requested; the vector is resized to it (508);
\* the second call (509) fills it, with VK_INCOMPLETE when it holds fewer
\* than n handles, or fails and leaves the handles null.
GetSwapchainImages ==
  /\ pc = "vkGetSwapchainImagesKHR"
  /\ \E query \in CreateResults, fill \in CreateResults,
        n \in SwapchainImageCounts(imageCount,
                                   swapChainSupport.capabilities.maxImageCount) :
       LET count == IF query = "VK_SUCCESS" THEN n ELSE imageCount
       IN /\ imageCount' = count
          /\ IF fill = "VK_SUCCESS"
               THEN /\ mSwapChainImages' = [k \in 1..count |-> k]
                    /\ vkResult' = IF count < n THEN "VK_INCOMPLETE"
                                   ELSE "VK_SUCCESS"
               ELSE /\ mSwapChainImages' = [k \in 1..count |-> VK_NULL_HANDLE]
                    /\ vkResult' = fill
  /\ pc' = "createImageViews"
  /\ UNCHANGED <<selectionVars, err, exitCode, handles, frameVars, cleanupIdx>>
  /\ UNCHANGED <<framebufferSize, swapChainSupport, surfaceFormat, presentMode,
                 mSwapChainExtent>>
  /\ UNCHANGED <<createInfo, mSwapChainImageViews, mSwapChainFramebuffers,
                 loopIdx, swapChainStatus>>
  /\ UNCHANGED engineVars

\* createImageViews, line 518
CreateImageViews ==
  /\ pc = "createImageViews"
  /\ mSwapChainImageViews' = [k \in 1..Len(mSwapChainImages) |-> "null"]
  /\ loopIdx' = 0
  /\ pc' = "vkCreateImageView"
  /\ UNCHANGED <<selectionVars, err, exitCode, configVars, vkResult, handles,
                 frameVars, cleanupIdx>>
  /\ UNCHANGED <<createInfo, mSwapChainImages, mSwapChainFramebuffers,
                 swapChainStatus>>
  /\ UNCHANGED engineVars

\* createImageViews, one turn of the loop of lines 520-544
CreateImageView ==
  /\ pc = "vkCreateImageView"
  /\ IF loopIdx < Len(mSwapChainImages)
       THEN \E result \in CreateResults :
              IF result = "VK_SUCCESS"
                THEN /\ vkResult' = result
                     /\ mSwapChainImageViews' =
                          [mSwapChainImageViews EXCEPT ![loopIdx + 1] = "live"]
                     /\ loopIdx' = loopIdx + 1
                     /\ UNCHANGED <<pc, err>>
                ELSE /\ Fail(result, ERR_IMAGE_VIEW)
                     /\ UNCHANGED <<mSwapChainImageViews, loopIdx>>
       ELSE /\ pc' = "createRenderPass"
            /\ UNCHANGED <<vkResult, err, mSwapChainImageViews, loopIdx>>
  /\ UNCHANGED <<selectionVars, exitCode, configVars, handles, frameVars,
                 cleanupIdx>>
  /\ UNCHANGED <<createInfo, mSwapChainImages, mSwapChainFramebuffers,
                 swapChainStatus>>
  /\ UNCHANGED engineVars

\* createRenderPass, lines 699-753
CreateRenderPass ==
  /\ pc = "createRenderPass"
  /\ CreateObject("mRenderPass", "createGraphicsPipeline", ERR_RENDER_PASS)

\* readFile, line 1125: the message of the exception
FileError(filename) == ERR_FILE \o filename

\* createGraphicsPipeline, lines 758-939; failure is the call that fails, or
\* the file that readFile cannot open
CreateGraphicsPipeline ==
  /\ pc = "createGraphicsPipeline"
  /\ \E failure \in {"none", "vkCreateShaderModule", "vkCreatePipelineLayout",
                     "vkCreateGraphicsPipelines"} \cup Listed(ShaderFiles) :
       /\ vkResult' = IF failure \in Listed(ShaderFiles) THEN vkResult
                      ELSE IF failure = "none" THEN "VK_SUCCESS"
                      ELSE "VK_ERROR_OUT_OF_HOST_MEMORY"
       /\ handles' =
            [handles EXCEPT
               !["mPipelineLayout"] =
                 IF failure \in {"none", "vkCreateGraphicsPipelines"}
                   THEN "live" ELSE @,
               !["mGraphicsPipeline"] = IF failure = "none" THEN "live" ELSE @]
       /\ IF failure = "none"
            THEN pc' = "createFramebuffers" /\ UNCHANGED err
            ELSE Throw(CASE failure \in Listed(ShaderFiles) -> FileError(failure)
                         [] failure = "vkCreateShaderModule" -> ERR_SHADER_MODULE
                         [] failure = "vkCreatePipelineLayout" -> ERR_PIPELINE_LAYOUT
                         [] OTHER -> ERR_PIPELINE)
  /\ UNCHANGED <<selectionVars, exitCode, configVars, swapVars, frameVars,
                 cleanupIdx>>
  /\ UNCHANGED engineVars

\* mutant: the last image view gets no framebuffer
FramebufferCountButLast(imageViews) == Len(imageViews) - 1

\* createFramebuffers: the size of lines 946 and 949
FramebufferCount(imageViews) == Len(imageViews)

\* createFramebuffers, line 946
CreateFramebuffers ==
  /\ pc = "createFramebuffers"
  /\ mSwapChainFramebuffers' =
       [k \in 1..FramebufferCount(mSwapChainImageViews) |-> "null"]
  /\ loopIdx' = 0
  /\ pc' = "vkCreateFramebuffer"
  /\ UNCHANGED <<selectionVars, err, exitCode, configVars, vkResult, handles,
                 frameVars, cleanupIdx>>
  /\ UNCHANGED <<createInfo, mSwapChainImages, mSwapChainImageViews,
                 swapChainStatus>>
  /\ UNCHANGED engineVars

\* line 966: "literal" + i is the char pointer moved on by i characters (an
\* i past the end of the literal is not modelled: the loop has fewer turns)
FramebufferError(i) == SubSeq(ERR_FRAMEBUFFER, i + 1, Len(ERR_FRAMEBUFFER))

\* createFramebuffers, one turn of the loop of lines 949-968
CreateFramebuffer ==
  /\ pc = "vkCreateFramebuffer"
  /\ IF loopIdx < FramebufferCount(mSwapChainImageViews)
       THEN \E result \in CreateResults :
              IF result = "VK_SUCCESS"
                THEN /\ vkResult' = result
                     /\ mSwapChainFramebuffers' =
                          [mSwapChainFramebuffers EXCEPT ![loopIdx + 1] = "live"]
                     /\ loopIdx' = loopIdx + 1
                     /\ UNCHANGED <<pc, err>>
                ELSE /\ Fail(result, FramebufferError(loopIdx))
                     /\ UNCHANGED <<mSwapChainFramebuffers, loopIdx>>
       ELSE /\ pc' = "createCommandPool"
            /\ UNCHANGED <<vkResult, err, mSwapChainFramebuffers, loopIdx>>
  /\ UNCHANGED <<selectionVars, exitCode, configVars, handles, frameVars,
                 cleanupIdx>>
  /\ UNCHANGED <<createInfo, mSwapChainImages, mSwapChainImageViews,
                 swapChainStatus>>
  /\ UNCHANGED engineVars

\* createCommandPool, lines 974-987
CreateCommandPool ==
  /\ pc = "createCommandPool"
  /\ IF HasValue(findQueueFamilies(mPhysicalDevice).indices.graphicsFamily)
       THEN CreateObject("mCommandPool", "createCommandBuffer", ERR_COMMAND_POOL)
       \* line 981: value() of an empty optional
       ELSE /\ Throw(ERR_BAD_OPTIONAL)
            /\ UNCHANGED <<selectionVars, exitCode, configVars, renderVars>>

\* createCommandBuffer, lines 992-1004
CreateCommandBuffer ==
  /\ pc = "createCommandBuffer"
  /\ CreateObject("mCommandBuffer", "createSyncObjects", ERR_COMMAND_BUFFER)

\* createSyncObjects, lines 1074-1089: the calls of the condition in order
SyncObjects ==
  <<"mImageAvailableSemaphore", "mRenderFinishedSemaphore", "mInFlightFence">>

\* failedAt is the call of the condition that fails, 0 when none does; the
\* fence is created signaled
CreateSyncObjects ==
  /\ pc = "createSyncObjects"
  /\ \E failedAt \in 0..Len(SyncObjects) :
       LET created == IF failedAt = 0 THEN Listed(SyncObjects)
                      ELSE {SyncObjects[k] : k \in 1..(failedAt - 1)}
       IN /\ handles' = [object \in ObjectNames |->
                           IF object \in created THEN "live" ELSE handles[object]]
          /\ IF failedAt = 0
               THEN /\ vkResult' = "VK_SUCCESS"
                    /\ fenceSignaled' = TRUE
                    /\ pc' = "update"
                    /\ UNCHANGED err
               ELSE /\ Fail("VK_ERROR_OUT_OF_HOST_MEMORY", ERR_SYNC)
                    /\ UNCHANGED fenceSignaled
  /\ UNCHANGED <<selectionVars, exitCode, configVars, swapVars, cleanupIdx>>
  /\ UNCHANGED <<imageAvailable, inFlight, imageIndex, frames>>
  /\ UNCHANGED engineVars

\* the history of frame gains an event
Happened(history, frame, event) ==
  [history EXCEPT ![frame] = Append(@, event)]

\* the call of drawFrame whose submission the device has not finished
Submitted(history) ==
  CHOOSE frame \in 1..Len(history) :
    /\ \E k \in 1..Len(history[frame]) : history[frame][k] = "submitted"
    /\ \A k \in 1..Len(history[frame]) : history[frame][k] # "renderFinished"

\* update, lines 81-85: the test of the loop; the window is closed after
\* MaxFrames frames at the latest
Update ==
  /\ pc = "update"
  /\ \E shouldClose \in BOOLEAN :
       /\ frames = MaxFrames => shouldClose
       /\ IF shouldClose
            THEN pc' = "vkDeviceWaitIdle" /\ UNCHANGED <<frames, timeline>>
            ELSE /\ pc' = "vkWaitForFences"
                 /\ frames' = frames + 1
                 /\ timeline' = Append(timeline, <<>>)
  /\ UNCHANGED <<selectionVars, err, exitCode, configVars, vkResult, handles,
                 swapVars, cleanupIdx>>
  /\ UNCHANGED <<fenceSignaled, imageAvailable, inFlight, imageIndex>>
  /\ UNCHANGED <<queueCreateInfoList, renderFinished, presentQueue, cleanups>>

\* mutant: the wait returns whatever the state of the fence
FenceWaitReturnsAtOnce(signaled) == TRUE

\* vkWaitForFences with VK_TRUE and no timeout returns once the fence is
\* signaled
FenceWaitReturns(signaled) == signaled

\* drawFrame, line 97
WaitForFences ==
  /\ pc = "vkWaitForFences"
  /\ FenceWaitReturns(fenceSignaled)
  /\ vkResult' = "VK_SUCCESS"
  /\ pc' = "vkResetFences"
  /\ UNCHANGED <<selectionVars, err, exitCode, configVars, handles, swapVars,
                 frameVars, cleanupIdx>>
  /\ UNCHANGED engineVars

\* drawFrame, line 100
ResetFences ==
  /\ pc = "vkResetFences"
  /\ fenceSignaled' = FALSE
  /\ vkResult' = "VK_SUCCESS"
  /\ pc' = "vkAcquireNextImageKHR"
  /\ UNCHANGED <<selectionVars, err, exitCode, configVars, handles, swapVars,
                 cleanupIdx>>
  /\ UNCHANGED <<imageAvailable, inFlight, imageIndex, frames>>
  /\ UNCHANGED engineVars

\* drawFrame, lines 103-105: the VkResult is not read. When no image is
\* acquired imageIndex stays uninitialized: it holds any index, the size of
\* mSwapChainFramebuffers standing for every index out of range.
AcquireNextImage ==
  /\ pc = "vkAcquireNextImageKHR"
  /\ \E result \in PresentationResults(swapChainStatus),
        index \in 0..Len(mSwapChainFramebuffers) :
       /\ result # "VK_ERROR_OUT_OF_DATE_KHR" => index < Len(mSwapChainImages)
       /\ vkResult' = result
       /\ imageIndex' = index
       /\ imageAvailable' =
            IF result # "VK_ERROR_OUT_OF_DATE_KHR" THEN TRUE ELSE imageAvailable
       /\ swapChainStatus' = StatusAfter(swapChainStatus, result)
       /\ timeline' = IF result # "VK_ERROR_OUT_OF_DATE_KHR"
                         THEN Happened(timeline, frames, "acquired")
                         ELSE timeline
  /\ pc' = "vkResetCommandBuffer"
  /\ UNCHANGED <<selectionVars, err, exitCode, configVars, handles, cleanupIdx>>
  /\ UNCHANGED <<createInfo, mSwapChainImages, mSwapChainImageViews,
                 mSwapChainFramebuffers, loopIdx>>
  /\ UNCHANGED <<fenceSignaled, inFlight, frames>>
  /\ UNCHANGED <<queueCreateInfoList, renderFinished, presentQueue, cleanups>>

\* drawFrame, line 108
ResetCommandBuffer ==
  /\ pc = "vkResetCommandBuffer"
  /\ vkResult' = "VK_SUCCESS"
  /\ pc' = "recordCommandBuffer"
  /\ UNCHANGED <<selectionVars, err, exitCode, configVars, handles, swapVars,
                 frameVars, cleanupIdx>>
  /\ UNCHANGED engineVars

\* drawFrame, line 110: recordCommandBuffer, lines 1011-1069. outcome is the
\* call that fails; mSwapChainFramebuffers[imageIndex] of an index out of
\* range crashes the process or goes on with whatever the read gave.
RecordCommandBuffer ==
  /\ pc = "recordCommandBuffer"
  /\ \E outcome \in {"recorded", "vkBeginCommandBuffer", "crash",
                     "vkEndCommandBuffer"} :
       /\ outcome = "crash" => imageIndex >= Len(mSwapChainFramebuffers)
       /\ vkResult' = IF outcome \in {"recorded", "crash"} THEN "VK_SUCCESS"
                      ELSE "VK_ERROR_OUT_OF_HOST_MEMORY"
       /\ IF outcome = "recorded"
            THEN pc' = "vkQueueSubmit" /\ UNCHANGED <<err, exitCode>>
            ELSE IF outcome = "crash"
            THEN pc' = "exited" /\ exitCode' = "crashed" /\ UNCHANGED err
            ELSE /\ Throw(IF outcome = "vkBeginCommandBuffer"
                            THEN ERR_BEGIN ELSE ERR_RECORD)
                 /\ UNCHANGED exitCode
  /\ UNCHANGED <<selectionVars, configVars, handles, swapVars, frameVars,
                 cleanupIdx>>
  /\ UNCHANGED engineVars

\* drawFrame, lines 112-132
QueueSubmit ==
  /\ pc = "vkQueueSubmit"
  /\ \E result \in CreateResults :
       IF result = "VK_SUCCESS"
         THEN /\ vkResult' = result
              /\ inFlight' = inFlight + 1
              /\ timeline' = Happened(timeline, frames, "submitted")
              /\ pc' = "vkQueuePresentKHR"
              /\ UNCHANGED err
         ELSE /\ Fail(result, ERR_SUBMIT)
              /\ UNCHANGED <<inFlight, timeline>>
  /\ UNCHANGED <<selectionVars, exitCode, configVars, handles, swapVars,
                 cleanupIdx>>
  /\ UNCHANGED <<fenceSignaled, imageAvailable, imageIndex, frames>>
  /\ UNCHANGED <<queueCreateInfoList, renderFinished, presentQueue, cleanups>>

\* drawFrame, lines 134-149: the VkResult is not read. The request waits for
\* pWaitSemaphores on the queue; an out-of-date swap chain shows no image, the
\* wait is executed all the same.
QueuePresent ==
  /\ pc = "vkQueuePresentKHR"
  /\ \E result \in PresentationResults(swapChainStatus) :
       /\ vkResult' = result
       /\ swapChainStatus' = StatusAfter(swapChainStatus, result)
       /\ presentQueue' =
            Append(presentQueue,
                   [frame |-> frames,
                    shown |-> result # "VK_ERROR_OUT_OF_DATE_KHR"])
  /\ pc' = "update"
  /\ UNCHANGED <<selectionVars, err, exitCode, configVars, handles, frameVars,
                 cleanupIdx>>
  /\ UNCHANGED <<createInfo, mSwapChainImages, mSwapChainImageViews,
                 mSwapChainFramebuffers, loopIdx>>
  /\ UNCHANGED <<queueCreateInfoList, renderFinished, timeline, cleanups>>

\* the device executes the submission of lines 112-129: it waits for
\* mImageAvailableSemaphore at the colour output stage, writes the colour
\* output, signals mRenderFinishedSemaphore and mInFlightFence when it is done
GpuExecute ==
  /\ pc # "exited"
  /\ inFlight > 0
  /\ imageAvailable
  /\ inFlight' = inFlight - 1
  /\ imageAvailable' = FALSE
  /\ fenceSignaled' = TRUE
  /\ renderFinished' = TRUE
  /\ timeline' = Happened(Happened(timeline, Submitted(timeline), "colorOutput"),
                          Submitted(timeline), "renderFinished")
  /\ UNCHANGED <<selectionVars, pc, err, exitCode, configVars, vkResult, handles,
                 swapVars, cleanupIdx>>
  /\ UNCHANGED <<imageIndex, frames>>
  /\ UNCHANGED <<queueCreateInfoList, presentQueue, cleanups>>

\* mutant: the request waits for no semaphore
PresentWaitReturnsAtOnce(signaled) == TRUE

\* the semaphore wait of a presentation request (lines 140-141) is over once
\* the semaphore is signaled
PresentWaitReturns(signaled) == signaled

\* the queue executes its oldest presentation request: the wait unsignals
\* mRenderFinishedSemaphore, then the image is shown
PresentEngine ==
  /\ pc # "exited"
  /\ presentQueue # <<>>
  /\ PresentWaitReturns(renderFinished)
  /\ renderFinished' = FALSE
  /\ presentQueue' = Tail(presentQueue)
  /\ timeline' = IF Head(presentQueue).shown
                    THEN Happened(timeline, Head(presentQueue).frame, "presented")
                    ELSE timeline
  /\ UNCHANGED <<selectionVars, pc, err, exitCode, configVars, vkResult, handles,
                 swapVars, frameVars, cleanupIdx>>
  /\ UNCHANGED <<queueCreateInfoList, cleanups>>

\* update, line 88: returns once the device has finished every submission
DeviceWaitIdle ==
  /\ pc = "vkDeviceWaitIdle"
  /\ inFlight = 0
  /\ vkResult' = "VK_SUCCESS"
  /\ pc' = "delete"
  /\ UNCHANGED <<selectionVars, err, exitCode, configVars, handles, swapVars,
                 frameVars, cleanupIdx>>
  /\ UNCHANGED engineVars

\* main, line 20: the destructor, lines 5-8, calls cleanup
Delete ==
  /\ pc = "delete"
  /\ pc' = "cleanup"
  /\ cleanupIdx' = 1
  /\ cleanups' = cleanups + 1
  /\ UNCHANGED <<selectionVars, err, exitCode, configVars, vkResult, handles,
                 swapVars, frameVars>>
  /\ UNCHANGED <<queueCreateInfoList, renderFinished, presentQueue, timeline>>

DestroyAll(objects) == [k \in 1..Len(objects) |-> "destroyed"]

\* cleanup, lines 36-75: the statement at cleanupIdx
CleanupStep ==
  /\ pc = "cleanup"
  /\ LET object == CleanupSequence[cleanupIdx]
     IN /\ handles' = IF object \in ObjectNames
                        THEN [handles EXCEPT ![object] = "destroyed"]
                        ELSE handles
        /\ mSwapChainFramebuffers' =
             IF object = "mSwapChainFramebuffers"
               THEN DestroyAll(mSwapChainFramebuffers)
               ELSE mSwapChainFramebuffers
        /\ mSwapChainImageViews' =
             IF object = "mSwapChainImageViews"
               THEN DestroyAll(mSwapChainImageViews)
               ELSE mSwapChainImageViews
  /\ IF cleanupIdx < Len(CleanupSequence)
       THEN cleanupIdx' = cleanupIdx + 1 /\ UNCHANGED pc
       ELSE pc' = "return" /\ UNCHANGED cleanupIdx
  /\ UNCHANGED <<selectionVars, err, exitCode, configVars, vkResult, frameVars>>
  /\ UNCHANGED <<createInfo, mSwapChainImages, loopIdx, swapChainStatus>>
  /\ UNCHANGED engineVars

\* main, line 29
Return ==
  /\ pc = "return"
  /\ pc' = "exited"
  /\ exitCode' = "EXIT_SUCCESS"
  /\ UNCHANGED <<selectionVars, err, configVars, renderVars>>

\* A machine with one physical device, or none; the device supports MAILBOX
\* (the devices of MixedMachines support FIFO only)
RenderDevice == [deviceType : {"DISCRETE_GPU"},
                 maxImageDimension2D : {MaxDim},
                 geometryShader : {TRUE},
                 queueFamilies : SeqUpTo(QueueFamily, MaxFamilies),
                 extensions : {ExtensionNames},
                 capabilities : Capabilities,
                 formats : {<<>>, <<PreferredFormat>>},
                 presentModes : {<<"FIFO", "MAILBOX">>}]

\* a device that findQueueFamilies finds no presentation family for, and one
\* that passes every test of getDeviceSuitablility
UnsuitableDevice ==
  [deviceType |-> "DISCRETE_GPU", maxImageDimension2D |-> MaxDim,
   geometryShader |-> TRUE,
   queueFamilies |-> <<[graphics |-> TRUE, present |-> FALSE]>>,
   extensions |-> ExtensionNames, capabilities |-> FixedCapabilities,
   formats |-> <<>>, presentModes |-> <<"FIFO">>]
SuitableDevice ==
  [UnsuitableDevice EXCEPT
     !.queueFamilies = <<[graphics |-> TRUE, present |-> TRUE]>>,
     !.formats = <<PreferredFormat>>]

\* machines with two physical devices of which one is suitable
MixedMachines == {<<UnsuitableDevice, SuitableDevice>>,
                  <<SuitableDevice, UnsuitableDevice>>}

InitRender ==
  /\ \/ devices \in SeqUpTo(RenderDevice, 1)
     \/ devices \in MixedMachines
  /\ pc = "init"
  /\ framebufferSize = WindowSize
  /\ swapChainSupport = EmptyDetails
  /\ Constructed

NextRender ==
  \/ Next
  \/ CreateLogicalDevice
  \/ QuerySwapChainSupport
  \/ NextConfig
  \/ CreateSwapchain
  \/ GetSwapchainImages
  \/ CreateImageViews
  \/ CreateImageView
  \/ CreateRenderPass
  \/ CreateGraphicsPipeline
  \/ CreateFramebuffers
  \/ CreateFramebuffer
  \/ CreateCommandPool
  \/ CreateCommandBuffer
  \/ CreateSyncObjects
  \/ Update
  \/ WaitForFences
  \/ ResetFences
  \/ AcquireNextImage
  \/ ResetCommandBuffer
  \/ RecordCommandBuffer
  \/ QueueSubmit
  \/ QueuePresent
  \/ GpuExecute
  \/ PresentEngine
  \/ DeviceWaitIdle
  \/ Delete
  \/ CleanupStep
  \/ Return

SpecRender == InitRender /\ [][NextRender]_vars

\* ------------------------------------------------------------------------
\* Vocabulary of the properties
\* ------------------------------------------------------------------------
Handles == 1..Len(devices)
Entries == 1..Len(availableDevices)

HasGraphicsFamily(d) == \E k \in 1..Len(d.queueFamilies) : d.queueFamilies[k].graphics
HasPresentFamily(d) == \E k \in 1..Len(d.queueFamilies) : d.queueFamilies[k].present

\* the hard requirements, as the platform reports them
FailsHardRequirement(d) ==
  \/ ~d.geometryShader
  \/ ~HasGraphicsFamily(d)
  \/ ~HasPresentFamily(d)
  \/ "VK_KHR_swapchain" \notin d.extensions
  \/ (d.formats = <<>> /\ d.presentModes = <<>>)

PickFailed == err \in {ERR_NO_GPUS, ERR_NO_SUITABLE_GPU}
PickSucceeded == pc = "createLogicalDevice"
PickEnded == PickFailed \/ PickSucceeded

\* the score the loop recorded for the device with handle h
ScoreOf(h) == (CHOOSE e \in {availableDevices[k] : k \in Entries} : e.second = h).first
Scored(h) == \E k \in Entries : availableDevices[k].second = h

\* ------------------------------------------------------------------------
\* C1: whenever the enumerated list holds a device with a graphics and a
\* presentation family, the required extensions, the geometry-shader feature
\* and a non-empty format list or a non-empty present-mode list,
\* pickPhysicalDevice does not fail.
\* ------------------------------------------------------------------------
C1_SuitableDeviceIsPicked ==
  (\E h \in Handles : ~FailsHardRequirement(devices[h])) => ~PickFailed

\* ------------------------------------------------------------------------
\* C2: pickPhysicalDevice fails, leaving mPhysicalDevice unset, whenever no
\* device is enumerated or every device fails a hard requirement, and
\* whenever the highest score is <= 0.
\* ------------------------------------------------------------------------
C2_NoSuitableDeviceFails ==
  PickEnded =>
    /\ (devices = <<>> \/ \A h \in Handles : FailsHardRequirement(devices[h]))
         => (PickFailed /\ mPhysicalDevice = VK_NULL_HANDLE)
    /\ (\A k \in Entries : availableDevices[k].first <= 0)
         => (PickFailed /\ mPhysicalDevice = VK_NULL_HANDLE)

C2_Witness ==
  /\ err = ERR_NO_SUITABLE_GPU
  /\ mPhysicalDevice = VK_NULL_HANDLE
  /\ Len(devices) = 2
  /\ ~devices[1].geometryShader
  /\ devices[2].geometryShader
  /\ devices[2].formats = <<>> /\ devices[2].presentModes = <<>>

\* ------------------------------------------------------------------------
\* C3: when pickPhysicalDevice succeeds, every enumerated device has been
\* scored and the device in mPhysicalDevice has a score greater than or
\* equal to the score of every enumerated device.
\* ------------------------------------------------------------------------
C3_BestDeviceIsPicked ==
  PickSucceeded =>
    /\ mPhysicalDevice \in Handles
    /\ \A h \in Handles : Scored(h) /\ ScoreOf(mPhysicalDevice) >= ScoreOf(h)

C3_Witness ==
  /\ PickSucceeded
  /\ Len(devices) = 2
  /\ mPhysicalDevice = 2
  /\ ScoreOf(1) > 0
  /\ ScoreOf(2) > ScoreOf(1)

\* ------------------------------------------------------------------------
\* C4 as claimed: among the devices that share the highest score, the first
\* in enumeration order is picked.
\* ------------------------------------------------------------------------
C4_FirstOfTiesIsPicked ==
  PickSucceeded =>
    \A h \in Handles : ScoreOf(h) = ScoreOf(mPhysicalDevice) => mPhysicalDevice <= h

\* ------------------------------------------------------------------------
\* C4 as amended: among the devices that share the highest score, the last
\* in enumeration order is picked.
\* ------------------------------------------------------------------------
C4_LastOfTiesIsPicked ==
  PickSucceeded =>
    \A h \in Handles : ScoreOf(h) = ScoreOf(mPhysicalDevice) => mPhysicalDevice >= h

C4_Witness ==
  /\ PickSucceeded
  /\ Len(devices) = 2
  /\ ScoreOf(1) = ScoreOf(2)
  /\ mPhysicalDevice = 2

\* ------------------------------------------------------------------------
\* C5: for every device that passes all hard requirements, the recorded
\* score is (1000 if discrete, else 0) + the maximum 2D image dimension
\* + the number of surface formats + the number of present modes the device
\* supports.
\* ------------------------------------------------------------------------
ClaimedScore(d) ==
  (IF d.deviceType = "DISCRETE_GPU" THEN 1000 ELSE 0) + d.maxImageDimension2D
    + Len(d.formats) + Len(d.presentModes)

C5_ScoreCountsFormatsAndPresentModes ==
  \A k \in Entries :
    LET d == devices[availableDevices[k].second]
    IN ~FailsHardRequirement(d) => availableDevices[k].first = ClaimedScore(d)

\* ------------------------------------------------------------------------
\* C6: getDeviceSuitablility returns exactly 0 for a device without the
\* geometry-shader feature, or whose findQueueFamilies result lacks an index,
\* or that lacks a required extension, or whose getSwapChainSupport result
\* has an empty format list and an empty present-mode list, whatever the
\* adapter class and image-dimension limit.
\* ------------------------------------------------------------------------
C6_DisqualifiedScoresZero ==
  \A k \in Entries :
    LET h == availableDevices[k].second
        found == findQueueFamilies(h).indices
        support == getSwapChainSupport(h)
    IN (\/ ~devices[h].geometryShader
        \/ found.graphicsFamily = {}
        \/ found.presentFamily = {}
        \/ ~(deviceExtensions \subseteq devices[h].extensions)
        \/ (support.formats = <<>> /\ support.presentModes = <<>>))
       => availableDevices[k].first = 0

\* a discrete device with a positive image limit and a graphics family that
\* cannot present was scored 0 after its local suitability had reached 1001
C6_Witness ==
  /\ pc = "loop"
  /\ deviceIdx = 1
  /\ devices[1].deviceType = "DISCRETE_GPU"
  /\ devices[1].maxImageDimension2D = 1
  /\ devices[1].geometryShader
  /\ scan.device = 1
  /\ scan.indices.graphicsFamily # {}
  /\ scan.indices.presentFamily = {}
  /\ suitability = 1001
  /\ ScoreOf(1) = 0

\* ------------------------------------------------------------------------
\* C7: of two enumerated devices that pass the hard requirements and differ
\* only in that one is a discrete GPU, pickPhysicalDevice selects the discrete
\* one, whichever position it has.
\* ------------------------------------------------------------------------
DiscreteTwin(i, j) ==
  /\ i # j
  /\ devices[i].deviceType = "DISCRETE_GPU"
  /\ devices[j].deviceType # "DISCRETE_GPU"
  /\ devices[i] = [devices[j] EXCEPT !.deviceType = "DISCRETE_GPU"]

C7_DiscreteTwinIsAlwaysPicked ==
  (PickEnded /\ Len(devices) = 2) =>
    \A i, j \in Handles :
      (DiscreteTwin(i, j) /\ ~FailsHardRequirement(devices[i])) =>
        PickSucceeded /\ mPhysicalDevice = i

\* ------------------------------------------------------------------------
\* Queue families as the platform reports them
\* ------------------------------------------------------------------------
FamiliesOf(h) == devices[h].queueFamilies
\* 0-based indices, among the first n families, of the graphics families
GraphicsIndices(h, n) == {k - 1 : k \in {x \in 1..n : FamiliesOf(h)[x].graphics}}
PresentIndices(h, n) == {k - 1 : k \in {x \in 1..n : FamiliesOf(h)[x].present}}
Lowest(S) == IF S = {} THEN {} ELSE {CHOOSE x \in S : \A y \in S : x <= y}
Highest(S) == IF S = {} THEN {} ELSE {CHOOSE x \in S : \A y \in S : x >= y}

\* ------------------------------------------------------------------------
\* C8 as claimed: the graphicsFamily findQueueFamilies returns is the lowest
\* index whose family has the graphics flag, or empty if no family has it.
\* ------------------------------------------------------------------------
C8_GraphicsFamilyIsLowest ==
  scan.device # VK_NULL_HANDLE =>
    scan.indices.graphicsFamily
      = Lowest(GraphicsIndices(scan.device, Len(FamiliesOf(scan.device))))

\* ------------------------------------------------------------------------
\* C8 as amended: the graphicsFamily findQueueFamilies returns is the highest
\* index, among the families the scan visited, whose family has the graphics
\* flag, or empty if none of them has it.
\* ------------------------------------------------------------------------
C8_GraphicsFamilyIsLastVisited ==
  scan.device # VK_NULL_HANDLE =>
    scan.indices.graphicsFamily = Highest(GraphicsIndices(scan.device, scan.scanned))

\* a second graphics family replaced the first one
C8_Witness ==
  /\ scan.device # VK_NULL_HANDLE
  /\ scan.scanned = 2
  /\ GraphicsIndices(scan.device, 2) = {0, 1}
  /\ scan.indices.graphicsFamily = {1}

\* ------------------------------------------------------------------------
\* C9: findQueueFamilies queries presentation support for every family it
\* scans, the presentFamily it returns is the lowest scanned index that
\* supports presentation, and a device with a graphics family and a
\* presentation-capable family gets a complete result.
\* ------------------------------------------------------------------------
C9_PresentFamilyOfEveryFamily ==
  scan.device # VK_NULL_HANDLE =>
    /\ scan.queried = {k - 1 : k \in 1..scan.scanned}
    /\ scan.indices.presentFamily = Lowest(PresentIndices(scan.device, scan.scanned))
    /\ (HasGraphicsFamily(devices[scan.device]) /\ HasPresentFamily(devices[scan.device]))
         => (scan.indices.graphicsFamily # {} /\ scan.indices.presentFamily # {})

\* ------------------------------------------------------------------------
\* C10: the details getSwapChainSupport returns hold the capabilities, all
\* surface formats and all present modes the platform reports for the device.
\* ------------------------------------------------------------------------
C10_SupportDetailsAreComplete ==
  probe.device # VK_NULL_HANDLE =>
    /\ probe.details.capabilities = devices[probe.device].capabilities
    /\ probe.details.formats = devices[probe.device].formats
    /\ probe.details.presentModes = devices[probe.device].presentModes

\* ------------------------------------------------------------------------
\* Claim vocabulary of the swap chain parameters
\* ------------------------------------------------------------------------
availableFormats == swapChainSupport.formats
availablePresentModes == swapChainSupport.presentModes
capabilities == swapChainSupport.capabilities
FormatChosen == pc \in {"chooseSwapPresentMode", "chooseSwapExtent",
                        "imageCount", "vkCreateSwapchainKHR"}
PresentModeChosen == pc \in {"chooseSwapExtent", "imageCount",
                             "vkCreateSwapchainKHR"}
ExtentChosen == pc \in {"imageCount", "vkCreateSwapchainKHR"}
ImageCountChosen == pc = "vkCreateSwapchainKHR"

\* ------------------------------------------------------------------------
\* C11: on a non-empty candidate list the chosen surface format is the
\* first candidate that equals (B8G8R8A8_SRGB, SRGB_NONLINEAR) when the list
\* has one, and the first element of the list otherwise; it is always a
\* member of the list.
\* ------------------------------------------------------------------------
C11_PreferredFormatOrFirst ==
  (FormatChosen /\ availableFormats # <<>>) =>
    /\ surfaceFormat \in Listed(availableFormats)
    /\ IF PreferredFormat \in Listed(availableFormats)
         THEN surfaceFormat = PreferredFormat
         ELSE surfaceFormat = availableFormats[1]

\* the preferred format is picked from behind a candidate that shares its
\* pixel format only
C11_Witness ==
  /\ FormatChosen
  /\ availableFormats = <<OtherColorSpaceFormat, PreferredFormat>>
  /\ surfaceFormat = PreferredFormat

\* ------------------------------------------------------------------------
\* C12: the chosen present mode is MAILBOX exactly when MAILBOX is in the
\* candidate list, and FIFO in every other case, the empty list included;
\* the choice never fails.
\* ------------------------------------------------------------------------
C12_MailboxOrFifo ==
  /\ PresentModeChosen =>
       presentMode = (IF "MAILBOX" \in Listed(availablePresentModes)
                        THEN "MAILBOX" ELSE "FIFO")
  /\ pc = "chooseSwapPresentMode" => ENABLED ChooseSwapPresentMode

C12_Witness ==
  /\ PresentModeChosen
  /\ availablePresentModes = <<"IMMEDIATE", "MAILBOX">>
  /\ presentMode = "MAILBOX"

\* ------------------------------------------------------------------------
\* C13: the extent is currentExtent unchanged when its width is not the
\* sentinel 2^32-1; otherwise it is the framebuffer size with the width
\* brought into [minImageExtent.width, maxImageExtent.width] and the height
\* into [minImageExtent.height, maxImageExtent.height], each on its own.
\* ------------------------------------------------------------------------
Into(v, lo, hi) == IF v < lo THEN lo ELSE IF v > hi THEN hi ELSE v

C13_CurrentExtentOrClampedFramebuffer ==
  ExtentChosen =>
    IF capabilities.currentExtent.width # UINT32_MAX
      THEN mSwapChainExtent = capabilities.currentExtent
      ELSE /\ mSwapChainExtent.width =
                Into(framebufferSize.width, capabilities.minImageExtent.width,
                     capabilities.maxImageExtent.width)
           /\ mSwapChainExtent.height =
                Into(framebufferSize.height, capabilities.minImageExtent.height,
                     capabilities.maxImageExtent.height)

\* a 10000x1080 framebuffer under limits 1..1920 by 1..4096: the width is cut
\* to its own maximum and the height is kept
C13_Witness ==
  /\ ExtentChosen
  /\ capabilities.currentExtent.width = UINT32_MAX
  /\ framebufferSize = Extent(10000, 1080)
  /\ capabilities.minImageExtent = Extent(1, 1)
  /\ capabilities.maxImageExtent = Extent(1920, 4096)
  /\ mSwapChainExtent = Extent(1920, 1080)

\* ------------------------------------------------------------------------
\* C14: the requested image count is minImageCount + 1 when maxImageCount
\* is 0 or minImageCount + 1 <= maxImageCount, and maxImageCount otherwise;
\* so for every 32-bit minImageCount <= maxImageCount it is at least
\* minImageCount and, when maxImageCount is not 0, at most maxImageCount.
\* Violated: with minImageCount = maxImageCount = 2^32-1 the sum wraps to
\* 0 and 0 is requested.
\* ------------------------------------------------------------------------
ULessEq(a, b) == ~ULess(b, a)

C14_ImageCountWithinLimits ==
  ImageCountChosen =>
    /\ IF \/ capabilities.maxImageCount = 0
          \/ ULess(capabilities.minImageCount, capabilities.maxImageCount)
         \* no uint32_t is 2^32, the sum of 2^32-1 and 1
         THEN /\ capabilities.minImageCount # UINT32_MAX
              /\ imageCount = UInc(capabilities.minImageCount)
         ELSE imageCount = capabilities.maxImageCount
    /\ ULessEq(capabilities.minImageCount, capabilities.maxImageCount) =>
         /\ ULessEq(capabilities.minImageCount, imageCount)
         /\ capabilities.maxImageCount # 0 =>
              ULessEq(imageCount, capabilities.maxImageCount)

\* ------------------------------------------------------------------------
\* Claim vocabulary of the swap chain and the frames
\* ------------------------------------------------------------------------
LiveOnes(objects) == {k \in 1..Len(objects) : objects[k] = "live"}
AllLive(objects) == objects # <<>> /\ LiveOnes(objects) = 1..Len(objects)
AnyDestroyed(objects) == \E k \in 1..Len(objects) : objects[k] = "destroyed"
AllDestroyed(objects) == \A k \in 1..Len(objects) : objects[k] = "destroyed"
TeardownDone == pc = "return" \/ (pc = "exited" /\ exitCode = "EXIT_SUCCESS")
DrawFramePositions == {"vkWaitForFences", "vkResetFences", "vkAcquireNextImageKHR",
                       "vkResetCommandBuffer", "recordCommandBuffer",
                       "vkQueueSubmit", "vkQueuePresentKHR"}
ErrorResults == {"VK_ERROR_OUT_OF_HOST_MEMORY", "VK_ERROR_OUT_OF_DATE_KHR"}

\* ------------------------------------------------------------------------
\* C15: in a teardown every framebuffer is destroyed before any image view,
\* every image view before the swap chain, and the swap chain before the
\* logical device; a finished teardown has destroyed them all.
\* ------------------------------------------------------------------------
C15_TeardownInReverseOrder ==
  /\ AnyDestroyed(mSwapChainImageViews) => AllDestroyed(mSwapChainFramebuffers)
  /\ handles["mSwapChain"] = "destroyed" =>
       AllDestroyed(mSwapChainImageViews) /\ AllDestroyed(mSwapChainFramebuffers)
  /\ handles["mDevice"] = "destroyed" => handles["mSwapChain"] = "destroyed"
  /\ TeardownDone => handles["mDevice"] = "destroyed"

\* cleanup has destroyed the four framebuffers and the four image views of
\* a swap chain that is still there
C15_Witness ==
  /\ pc = "cleanup"
  /\ Len(mSwapChainImageViews) = 4
  /\ AllDestroyed(mSwapChainFramebuffers)
  /\ AllDestroyed(mSwapChainImageViews)
  /\ handles["mSwapChain"] = "live"
  /\ handles["mDevice"] = "live"

\* ------------------------------------------------------------------------
\* C16: whenever framebuffers exist there are as many image views as swap
\* chain images and as many framebuffers; once createFramebuffers has built
\* them all, every image has its image view.
\* ------------------------------------------------------------------------
C16_OneViewAndFramebufferPerImage ==
  mSwapChainFramebuffers # <<>> =>
    /\ Len(mSwapChainImageViews) = Len(mSwapChainImages)
    /\ Len(mSwapChainFramebuffers) = Len(mSwapChainImageViews)
    /\ AllLive(mSwapChainFramebuffers) => AllLive(mSwapChainImageViews)

\* a frame is drawn with four images, four image views and four framebuffers
C16_Witness ==
  /\ pc = "vkQueuePresentKHR"
  /\ Len(mSwapChainImages) = 4
  /\ AllLive(mSwapChainImageViews)
  /\ AllLive(mSwapChainFramebuffers)
  /\ Len(mSwapChainFramebuffers) = 4

\* ------------------------------------------------------------------------
\* C17: a swap chain that acquire or present has reported suboptimal or out
\* of date is torn down and rebuilt before the next frame is drawn with it:
\* no frame acquires an image of a swap chain that is not optimal.
\* Violated: drawFrame reads neither VkResult and nothing rebuilds.
\* ------------------------------------------------------------------------
C17_InvalidatedSwapChainIsRebuilt ==
  pc = "vkAcquireNextImageKHR" => swapChainStatus = "optimal"

\* ------------------------------------------------------------------------
\* C18: outside the construction and the teardown of the swap chain, a
\* failed construction included, either the swap chain, all its image views
\* and all its framebuffers exist, or none of them does.
\* Violated: a throw of init leaves what was built so far.
\* ------------------------------------------------------------------------
AllExist ==
  /\ handles["mSwapChain"] = "live"
  /\ AllLive(mSwapChainImageViews)
  /\ AllLive(mSwapChainFramebuffers)

NoneExist ==
  /\ handles["mSwapChain"] # "live"
  /\ LiveOnes(mSwapChainImageViews) = {}
  /\ LiveOnes(mSwapChainFramebuffers) = {}

OutsideConstruction ==
  pc \in DrawFramePositions \cup
         {"catch", "exited", "update", "vkDeviceWaitIdle", "delete", "return"}

C18_AllOrNothing == OutsideConstruction => (AllExist \/ NoneExist)

\* ------------------------------------------------------------------------
\* C19: an error status of a call of the graphics API is never passed over:
\* when the latest call has answered an error, control is in the catch
\* block of main or the process has ended.
\* Violated: the VkResult of vkGetSwapchainImagesKHR, vkAcquireNextImageKHR
\* and vkQueuePresentKHR is not read.
\* ------------------------------------------------------------------------
C19_NoFailureIgnored == vkResult \in ErrorResults => pc \in {"catch", "exited"}

Occurred(history, event) ==
  \E k \in 1..Len(history) : history[k] = event
Precedes(history, a, b) ==
  \E i, j \in 1..Len(history) : i < j /\ history[i] = a /\ history[j] = b
Frames == 1..Len(timeline)
InOrder(history) ==
  /\ Occurred(history, "colorOutput") =>
       Precedes(history, "acquired", "colorOutput")
  /\ Occurred(history, "renderFinished") =>
       Precedes(history, "colorOutput", "renderFinished")
  /\ Occurred(history, "presented") =>
       Precedes(history, "renderFinished", "presented")

\* C21: in every call of drawFrame the image is acquired before the commands
\* of the frame write colour output, the colour output is written before
\* mRenderFinishedSemaphore is signaled, and the semaphore is signaled before
\* the image is presented: no frame is presented before its commands are done.
C21_FrameEventsInOrder ==
  \A frame \in Frames : InOrder(timeline[frame])

\* the second frame went through the four events while the first had too
C21_Witness ==
  /\ Len(timeline) = 2
  /\ \A frame \in Frames :
       /\ Occurred(timeline[frame], "presented")
       /\ Precedes(timeline[frame], "acquired", "colorOutput")
       /\ Precedes(timeline[frame], "renderFinished", "presented")

\* ------------------------------------------------------------------------
\* main: teardown on every exit
\* ------------------------------------------------------------------------
\* C22: whenever the process has exited, normally or through a failure of
\* init or update, cleanup has been executed exactly once.
C22_CleanupOnceOnEveryExit ==
  pc = "exited" => cleanups = 1 /\ cleanupIdx = Len(CleanupSequence)

\* ------------------------------------------------------------------------
\* the queue families in use
\* ------------------------------------------------------------------------
DeviceCreated == handles["mDevice"] # "null"
SwapChainCreated == handles["mSwapChain"] # "null"

\* C23: a complete result of findQueueFamilies has graphicsFamily equal to
\* presentFamily; createLogicalDevice creates exactly one queue and
\* createSwapChain selects EXCLUSIVE image sharing, never CONCURRENT.
C23_OneQueueFamily ==
  /\ (scan.indices.graphicsFamily # {} /\ scan.indices.presentFamily # {}) =>
       scan.indices.graphicsFamily = scan.indices.presentFamily
  /\ DeviceCreated => Len(queueCreateInfoList) = 1
  /\ SwapChainCreated => createInfo.imageSharingMode = "EXCLUSIVE"

\* a device whose first family cannot present and whose second does both
C23_Witness ==
  /\ SwapChainCreated
  /\ Len(devices[mPhysicalDevice].queueFamilies) = 2
  /\ devices[mPhysicalDevice].queueFamilies[1] = [graphics |-> TRUE, present |-> FALSE]
  /\ scan.indices = [graphicsFamily |-> {1}, presentFamily |-> {1}]
  /\ queueCreateInfoList = <<1>>
  /\ createInfo.imageSharingMode = "EXCLUSIVE"

\* ------------------------------------------------------------------------
\* the present mode of the swap chain
\* ------------------------------------------------------------------------
\* C24: the present mode that createSwapChain passes to vkCreateSwapchainKHR
\* is FIFO whatever present modes the selected device supports, and the
\* support details it consumes carry no present mode.
C24_PresentModeIsFifo ==
  /\ swapChainSupport.presentModes = <<>>
  /\ presentMode \in {"none", "FIFO"}
  /\ SwapChainCreated => createInfo.presentMode = "FIFO"

\* the selected device supports MAILBOX and the swap chain is created
C24_Witness ==
  /\ SwapChainCreated
  /\ "MAILBOX" \in Listed(devices[mPhysicalDevice].presentModes)
  /\ createInfo.presentMode = "FIFO"

\* ------------------------------------------------------------------------
\* init after pickPhysicalDevice
\* ------------------------------------------------------------------------
PickedIndices == findQueueFamilies(mPhysicalDevice).indices
ReadsBothFamilies == {"createLogicalDevice", "vkCreateSwapchainKHR"}

\* C25: after a successful pickPhysicalDevice, createLogicalDevice and
\* createSwapChain read a graphicsFamily and a presentFamily that have a
\* value, createCommandPool reads a graphicsFamily that has one, no value()
\* throws, and chooseSwapSurfaceFormat gets a list that is not empty.
C25_InitIsSafeOnPickedDevice ==
  /\ pc \in ReadsBothFamilies =>
       PickedIndices.graphicsFamily # {} /\ PickedIndices.presentFamily # {}
  /\ pc = "createCommandPool" => PickedIndices.graphicsFamily # {}
  /\ err # ERR_BAD_OPTIONAL
  /\ pc = "chooseSwapSurfaceFormat" => swapChainSupport.formats # <<>>

\* the second of two devices is picked, the first being unsuitable, and init
\* is past createCommandPool
C25_Witness ==
  /\ Len(devices) = 2
  /\ mPhysicalDevice = 2
  /\ devices[1] = UnsuitableDevice
  /\ handles["mCommandPool"] = "live"
  /\ surfaceFormat = PreferredFormat

\* ------------------------------------------------------------------------
\* drawFrame: the image index that is recorded
\* ------------------------------------------------------------------------
\* C26: whenever drawFrame calls recordCommandBuffer, imageIndex was returned
\* by an acquire of this frame that gave an image, and it is smaller than the
\* number of framebuffers.
C26_RecordedIndexWasAcquired ==
  pc = "recordCommandBuffer" =>
    /\ Occurred(timeline[frames], "acquired")
    /\ imageIndex < Len(mSwapChainFramebuffers)
====
